---- MODULE Spec2Model ----
(***************************************************************************)
(* Model of the two components of pytorch_widedeep found under src/:       *)
(*   - AttentiveRNN  (models/text/attentive_rnn.py)                        *)
(*   - SAINT         (models/tabular/transformers/saint.py)                *)
(* Tensors are nested sequences of symbolic cells; only their shape and    *)
(* the provenance of each cell matter to the wiring logic modelled here.   *)
(***************************************************************************)
EXTENDS Integers, Sequences, FiniteSets, TLC

VARIABLES rnn_pc, rnn_args, rnn_self, rnn_warnings, rnn_error, rnn_X, rnn_fwd,
          saint_pc, saint_args, saint_self, saint_error, saint_fwd, saint_passes,
          saint_read

rnn_vars == <<rnn_pc, rnn_args, rnn_self, rnn_warnings, rnn_error, rnn_X, rnn_fwd>>

saint_vars ==
    <<saint_pc, saint_args, saint_self, saint_error, saint_fwd, saint_passes, saint_read>>

vars == <<rnn_vars, saint_vars>>

(***************************************************************************)
(* Bounds of the model.                                                    *)
(***************************************************************************)
MaxHidden == 2
MaxLayers == 2
MaxBatch == 2
MaxSeq == 2
MaxCat == 2
MaxCont == 1
MaxInputDim == 2
MaxBlocks == 2
MaxPasses == 2

VocabSizes == {2}
EmbedDims == {1, 2}
HeadDims == {<<3>>}
DTypes == {"float32", "float64"}

(***************************************************************************)
(* Python optionals.                                                       *)
(***************************************************************************)
None == [set |-> FALSE]
Some(v) == [set |-> TRUE, val |-> v]
Optional(S) == {None} \cup {Some(v) : v \in S}

\* s[-i] of a Python sequence
NegIndex(s, i) == s[Len(s) + 1 - i]

\* s[-1] of a Python list
Last(s) == NegIndex(s, 1)

(***************************************************************************)
(* Strings are sequences of characters so that str.lower() is computed.    *)
(***************************************************************************)
LowerChars == {"l", "s", "t", "m", "g", "r", "u", "n"}
UpperChars == {"L", "S", "T", "M", "G", "R", "U", "N"}
Chars == LowerChars \cup UpperChars

LowerChar(c) ==
    CASE c = "L" -> "l" [] c = "S" -> "s" [] c = "T" -> "t" [] c = "M" -> "m"
      [] c = "G" -> "g" [] c = "R" -> "r" [] c = "U" -> "u" [] c = "N" -> "n"
      [] OTHER -> c

UpperChar(c) ==
    CASE c = "l" -> "L" [] c = "s" -> "S" [] c = "t" -> "T" [] c = "m" -> "M"
      [] c = "g" -> "G" [] c = "r" -> "R" [] c = "u" -> "U" [] c = "n" -> "N"
      [] OTHER -> c

\* str.lower()
lower(s) == [i \in 1..Len(s) |-> LowerChar(s[i])]

lstm == <<"l", "s", "t", "m">>
gru == <<"g", "r", "u">>
rnn == <<"r", "n", "n">>

\* every letter-case spelling of a word
Spellings(w) == {s \in [1..Len(w) -> Chars] : \A i \in 1..Len(w) : s[i] \in {w[i], UpperChar(w[i])}}

(***************************************************************************)
(* Torch tensor operations used by the two modules.  A 2-D tensor is a     *)
(* sequence of rows, a 3-D tensor a sequence of sequences of rows.  Every  *)
(* operation yields [error, val]; error is "none" or the exception raised. *)
(***************************************************************************)
Ok(v) == [error |-> "none", val |-> v]
Raise(e) == [error |-> e, val |-> <<>>]

\* torch.cat((a, b), dim=1) of two 2-D tensors
cat_dim1_2d(a, b) ==
    IF Len(a) # Len(b) THEN Raise("RuntimeError")
    ELSE Ok([i \in 1..Len(a) |-> a[i] \o b[i]])

\* torch.cat([a, b], dim=2) of two 3-D tensors
cat_dim2(a, b) ==
    IF Len(a) # Len(b) \/ \E i \in 1..Len(a) : Len(a[i]) # Len(b[i])
    THEN Raise("RuntimeError")
    ELSE Ok([i \in 1..Len(a) |-> [j \in 1..Len(a[i]) |-> a[i][j] \o b[i][j]]])

\* torch.cat([a, b], 1) of two 3-D tensors
cat_dim1_3d(a, b) ==
    IF Len(a) # Len(b) \/ \E i \in 1..Len(a) : Len(a[i][1]) # Len(b[i][1])
    THEN Raise("RuntimeError")
    ELSE Ok([i \in 1..Len(a) |-> a[i] \o b[i]])

\* t.unsqueeze(1) of a 2-D tensor
unsqueeze1(t) == [i \in 1..Len(t) |-> <<t[i]>>]

\* t.expand_as(other) of 3-D tensors: a dimension expands only from size 1
expand_as(t, other) ==
    LET n1 == Len(t)
        n2 == Len(t[1])
        n3 == Len(t[1][1])
        m1 == Len(other)
        m2 == Len(other[1])
        m3 == Len(other[1][1])
        Fits(n, m) == n = m \/ n = 1
        At(n, i) == IF n = 1 THEN 1 ELSE i
    IN  IF Fits(n1, m1) /\ Fits(n2, m2) /\ Fits(n3, m3)
        THEN Ok([i \in 1..m1 |-> [j \in 1..m2 |-> [k \in 1..m3 |->
                    t[At(n1, i)][At(n2, j)][At(n3, k)]]]])
        ELSE Raise("RuntimeError")

\* t.permute(1, 0, 2) of a 3-D tensor
permute102(t) == [j \in 1..Len(t[1]) |-> [i \in 1..Len(t) |-> t[i][j]]]

\* t.flatten(1) of a 3-D tensor
RECURSIVE Concat(_)
Concat(ss) == IF ss = <<>> THEN <<>> ELSE Head(ss) \o Concat(Tail(ss))

flatten1(t) == [i \in 1..Len(t) |-> Concat(t[i])]

\* width of the last axis
Width2(t) == Len(t[1])
Width3(t) == Len(t[1][1])

(***************************************************************************)
(* Collaborators imported by the two files.                                *)
(***************************************************************************)
\* MLP(d_hidden, ...): one dense layer per consecutive pair of widths
MLP(d_hidden) == [d_hidden |-> d_hidden]

\* MLP.forward on a (batch, width) tensor
MLP_forward(mlp, X) ==
    IF Len(mlp.d_hidden) <= 1 THEN Ok(X)
    ELSE IF Width2(X) # mlp.d_hidden[1] THEN Raise("RuntimeError")
    ELSE Ok([b \in 1..Len(X) |-> [j \in 1..Last(mlp.d_hidden) |->
                [layer |-> "mlp", b |-> b, k |-> j]]])

\* ContextAttention(input_dim, dropout, sum_along_seq=True)
ContextAttention(input_dim) == [input_dim |-> input_dim]

\* ContextAttention.forward: softmax-weighted sum over the time axis
ContextAttention_forward(attn, X) ==
    IF Width3(X) # attn.input_dim THEN Raise("RuntimeError")
    ELSE Ok([b \in 1..Len(X) |-> [k \in 1..Width3(X) |->
                [layer |-> "pool", of |-> [t \in 1..Len(X[b]) |-> X[b][t][k]]]]])

\* nn.Embedding lookup with the weight table in use
Embedding_forward(word_embed, X) ==
    IF \E b \in 1..Len(X) : \E t \in 1..Len(X[b]) : X[b][t] >= word_embed.weight[1]
    THEN Raise("IndexError")
    ELSE Ok([b \in 1..Len(X) |-> [t \in 1..Len(X[b]) |->
                [k \in 1..word_embed.weight[2] |->
                    [layer |-> "embed", tok |-> X[b][t], k |-> k]]]])

\* one hidden vector of the recurrent stack: layer l, direction d, sample b, step t
Cell(H, l, d, b, t) == [k \in 1..H |-> [layer |-> l, dir |-> d, b |-> b, t |-> t, k |-> k]]

\* nn.LSTM / nn.GRU forward (batch_first): output of the last layer at every
\* step, and the final hidden state of every (layer, direction)
RNN_forward(m, embed) ==
    LET B == Len(embed)
        T == Len(embed[1])
        H == m.hidden_size
        L == m.num_layers
        D == IF m.bidirectional THEN 2 ELSE 1
        LayerOf(i) == ((i - 1) \div D) + 1
        DirOf(i) == ((i - 1) % D) + 1
        FinalStep(d) == IF d = 1 THEN T ELSE 1
    IN  IF Width3(embed) # m.input_size THEN Raise("RuntimeError")
        ELSE Ok([o |-> [b \in 1..B |-> [t \in 1..T |->
                          IF D = 2 THEN Cell(H, L, 1, b, t) \o Cell(H, L, 2, b, t)
                          ELSE Cell(H, L, 1, b, t)]],
                 h |-> [i \in 1..(L * D) |-> [b \in 1..B |->
                          Cell(H, LayerOf(i), DirOf(i), b, FinalStep(DirOf(i)))]]])

(***************************************************************************)
(* AttentiveRNN.__init__                                                   *)
(***************************************************************************)
\* the object after super().__init__(): no attribute assigned yet
RnnSelfNew ==
    [word_embed |-> None, rnn |-> None, attn |-> None, attn_rnn_mlp |-> None,
     output_dim |-> None]

\* the same comparing embed_dim with the row count of the matrix
EmbedDimMismatchRows(a) ==
    /\ a.embed_dim.set
    /\ a.embed_matrix.set
    /\ ~(a.embed_dim.val = a.embed_matrix.val.shape[1])

\* the condition of the dimension-mismatch warning
EmbedDimMismatch(a) ==
    /\ a.embed_dim.set
    /\ a.embed_matrix.set
    /\ ~(a.embed_dim.val = a.embed_matrix.val.shape[2])

\* the same without lower-casing
RnnTypeSupportedExact(rnn_type) == rnn_type \in {lstm, gru}

\* the rnn_type validation
RnnTypeSupported(rnn_type) == lower(rnn_type) \in {lstm, gru}

\* self.<name> = <name> for the constructor arguments
RnnAssignAttrs(self, a) ==
    [vocab_size |-> a.vocab_size, rnn_type |-> a.rnn_type, hidden_dim |-> a.hidden_dim,
     n_layers |-> a.n_layers, bidirectional |-> a.bidirectional,
     use_hidden_state |-> a.use_hidden_state, embed_dim |-> a.embed_dim,
     with_attention |-> a.with_attention, attn_concatenate |-> a.attn_concatenate,
     head_hidden_dims |-> a.head_hidden_dims] @@ self

\* the same without the dtype assertion
SetEmbeddingsNoAssert(self, embed_matrix) ==
    IF embed_matrix.set
    THEN [error |-> "none",
          word_embed |-> Some([num_embeddings |-> self.vocab_size,
                               embedding_dim |-> embed_matrix.val.shape[2],
                               weight |-> embed_matrix.val.shape]),
          embed_dim |-> Some(embed_matrix.val.shape[2])]
    ELSE [error |-> "UnboundLocalError", word_embed |-> None, embed_dim |-> None]

\* AttentiveRNN._set_embeddings: [error, word_embed, embed_dim].  In the branch
\* without a pretrained matrix the local name embed_dim is read before it is bound.
_set_embeddings(self, embed_matrix) ==
    IF embed_matrix.set
    THEN IF embed_matrix.val.dtype # "float32"
         THEN [error |-> "AssertionError", word_embed |-> None, embed_dim |-> None]
         ELSE [error |-> "none",
               word_embed |-> Some([num_embeddings |-> self.vocab_size,
                                    embedding_dim |-> embed_matrix.val.shape[2],
                                    weight |-> embed_matrix.val.shape]),
               embed_dim |-> Some(embed_matrix.val.shape[2])]
    ELSE [error |-> "UnboundLocalError", word_embed |-> None, embed_dim |-> None]

\* the recurrent stack built from rnn_params
RnnStack(self, embed_dim, a) ==
    LET params == [input_size |-> embed_dim, hidden_size |-> a.hidden_dim,
                   num_layers |-> a.n_layers, bidirectional |-> a.bidirectional]
    IN  IF lower(self.rnn_type) = lstm THEN Some([cls |-> "LSTM"] @@ params)
        ELSE IF lower(self.rnn_type) = gru THEN Some([cls |-> "GRU"] @@ params)
        ELSE None

\* the width of the attention input chosen at construction
attn_input_dim(bidirectional, attn_concatenate, hidden_dim) ==
    IF bidirectional /\ attn_concatenate THEN hidden_dim * 4
    ELSE IF bidirectional \/ attn_concatenate THEN hidden_dim * 2
    ELSE hidden_dim

\* the attention module and the output_dim before the head
RnnAttention(self, a) ==
    IF self.with_attention
    THEN [self EXCEPT
            !.attn = Some(ContextAttention(
                        attn_input_dim(a.bidirectional, a.attn_concatenate, a.hidden_dim))),
            !.output_dim =
                Some(attn_input_dim(a.bidirectional, a.attn_concatenate, a.hidden_dim))]
    ELSE [self EXCEPT
            !.output_dim = Some(IF a.bidirectional THEN a.hidden_dim * 2 ELSE a.hidden_dim)]

\* the optional head and the final output_dim
RnnHead(self) ==
    IF self.head_hidden_dims.set
    THEN LET head_hidden_dims == <<self.output_dim.val>> \o self.head_hidden_dims.val
         IN  [self EXCEPT !.attn_rnn_mlp = Some(MLP(head_hidden_dims)),
                          !.output_dim = Some(Last(head_hidden_dims))]
    ELSE self

\* the whole constructor: [self, warnings, error]
AttentiveRNN_init(a) ==
    LET w == IF EmbedDimMismatch(a) THEN <<"UserWarning">> ELSE <<>>
    IN  IF ~RnnTypeSupported(a.rnn_type)
        THEN [self |-> RnnSelfNew, warnings |-> w, error |-> "ValueError"]
        ELSE LET s1 == RnnAssignAttrs(RnnSelfNew, a)
                 emb == _set_embeddings(s1, a.embed_matrix)
             IN  IF emb.error # "none"
                 THEN [self |-> s1, warnings |-> w, error |-> emb.error]
                 ELSE LET s2 == [s1 EXCEPT !.word_embed = emb.word_embed]
                          s3 == [s2 EXCEPT !.rnn = RnnStack(s2, emb.embed_dim.val, a)]
                          s4 == RnnAttention(s3, a)
                      IN  [self |-> RnnHead(s4), warnings |-> w, error |-> "none"]

(***************************************************************************)
(* AttentiveRNN.forward                                                    *)
(***************************************************************************)
\* _process_rnn_outputs with attention: [error, attn_inp, processed].  attn_inp
\* is bound on two of the three paths only; it is None where it was never built.
ProcessWithAttention(self, output, hidden) ==
    LET attn_inp ==
            IF self.attn_concatenate
            THEN IF self.bidirectional
                 THEN LET bi_hidden == cat_dim1_2d(NegIndex(hidden, 2), NegIndex(hidden, 1))
                          ex == expand_as(unsqueeze1(bi_hidden.val), output)
                      IN  IF bi_hidden.error # "none" THEN bi_hidden
                          ELSE IF ex.error # "none" THEN ex
                          ELSE cat_dim2(output, ex.val)
                 ELSE Raise("UnboundLocalError")
            ELSE LET ex == expand_as(unsqueeze1(NegIndex(hidden, 1)), output)
                 IN  IF ex.error # "none" THEN ex ELSE cat_dim2(output, ex.val)
    IN  IF attn_inp.error # "none"
        THEN [error |-> attn_inp.error, attn_inp |-> None, processed |-> None]
        ELSE LET p == ContextAttention_forward(self.attn.val, attn_inp.val)
             IN  [error |-> p.error, attn_inp |-> Some(attn_inp.val),
                  processed |-> IF p.error = "none" THEN Some(p.val) ELSE None]

\* the same with the time axis never moved to the front
ProcessWithoutAttentionNoPermute(self, output, hidden) ==
    [error |-> "none", attn_inp |-> None,
     processed |->
        IF self.bidirectional
        THEN IF self.use_hidden_state
             THEN Some(cat_dim1_2d(NegIndex(hidden, 2), NegIndex(hidden, 1)).val)
             ELSE Some(NegIndex(output, 1))
        ELSE IF self.use_hidden_state
             THEN Some(NegIndex(hidden, 1))
             ELSE Some(NegIndex(output, 1))]

\* _process_rnn_outputs without attention
ProcessWithoutAttention(self, output, hidden) ==
    LET permuted == permute102(output)
    IN  [error |-> "none", attn_inp |-> None,
         processed |->
            IF self.bidirectional
            THEN IF self.use_hidden_state
                 THEN Some(cat_dim1_2d(NegIndex(hidden, 2), NegIndex(hidden, 1)).val)
                 ELSE Some(NegIndex(permuted, 1))
            ELSE IF self.use_hidden_state
                 THEN Some(NegIndex(hidden, 1))
                 ELSE Some(NegIndex(permuted, 1))]

\* AttentiveRNN._process_rnn_outputs: [error, attn_inp, processed]
_process_rnn_outputs(self, output, hidden) ==
    IF self.with_attention
    THEN ProcessWithAttention(self, output, hidden)
    ELSE ProcessWithoutAttention(self, output, hidden)

\* what a forward pass leaves behind when nothing has run
NoForward ==
    [error |-> "none", o |-> None, h |-> None, attn_inp |-> None, processed |-> None,
     out |-> None]

\* the whole forward pass
AttentiveRNN_forward(self, X) ==
    LET embed == Embedding_forward(self.word_embed.val, X)
    IN  IF embed.error # "none" THEN [NoForward EXCEPT !.error = embed.error]
        ELSE
        LET r == RNN_forward(self.rnn.val, embed.val)
        IN  IF r.error # "none" THEN [NoForward EXCEPT !.error = r.error]
            ELSE
            LET ran == [NoForward EXCEPT !.o = Some(r.val.o), !.h = Some(r.val.h)]
                p == _process_rnn_outputs(self, r.val.o, r.val.h)
            IN  IF p.error # "none"
                THEN [ran EXCEPT !.error = p.error, !.attn_inp = p.attn_inp]
                ELSE
                LET done == [ran EXCEPT !.attn_inp = p.attn_inp, !.processed = p.processed]
                IN  IF self.head_hidden_dims.set
                    THEN LET head_out == MLP_forward(self.attn_rnn_mlp.val, p.processed.val)
                         IN  IF head_out.error # "none"
                             THEN [done EXCEPT !.error = head_out.error]
                             ELSE [done EXCEPT !.out = Some(head_out.val)]
                    ELSE [done EXCEPT !.out = p.processed]

(***************************************************************************)
(* Inputs of the AttentiveRNN model.                                       *)
(***************************************************************************)
RnnTypes == {lstm, <<"L", "S", "T", "M">>, gru, <<"G", "r", "u">>, rnn}

\* every letter-case spelling of the two supported names and of "rnn", and some
\* other strings
AllRnnTypes ==
    Spellings(lstm) \cup Spellings(gru) \cup Spellings(rnn)
        \cup {<<>>, <<"l", "s", "t">>, <<"l", "s", "t", "m", "s">>, <<"g", "r", "u", "U">>}

EmbedMatrices ==
    [dtype : DTypes,
     shape : {<<r, c>> : r \in {v + d : v \in VocabSizes, d \in {-1, 0, 1}}, c \in EmbedDims}]

RnnArgs(types) ==
    [vocab_size : VocabSizes, rnn_type : types, hidden_dim : 1..MaxHidden,
     n_layers : 1..MaxLayers, bidirectional : BOOLEAN, use_hidden_state : BOOLEAN,
     embed_dim : Optional(EmbedDims), embed_matrix : Optional(EmbedMatrices),
     with_attention : BOOLEAN, attn_concatenate : BOOLEAN,
     head_hidden_dims : Optional(HeadDims)]

\* the arguments with the flags of the output policy and the head left at their
\* declared defaults, the type string drawn from every spelling
RnnTypeArgs ==
    {a \in RnnArgs(AllRnnTypes) :
        /\ ~a.bidirectional
        /\ a.use_hidden_state
        /\ ~a.with_attention
        /\ a.attn_concatenate
        /\ ~a.head_hidden_dims.set}

\* batches in which every position holds the same token of the vocabulary
Batches(vocab_size) ==
    {[b \in 1..B |-> [t \in 1..T |-> tok]] :
        B \in 1..MaxBatch, T \in 1..MaxSeq, tok \in 0..(vocab_size - 1)}

(***************************************************************************)
(* Collaborators of SAINT.                                                 *)
(***************************************************************************)
\* SameSizeCatAndContEmbeddings(input_dim, column_idx, cat_embed_input, ...,
\* continuous_cols, ...)
SameSizeCatAndContEmbeddings(input_dim, column_idx, cat_embed_input, continuous_cols) ==
    [input_dim |-> input_dim, column_idx |-> column_idx,
     cat_embed_input |-> cat_embed_input, continuous_cols |-> continuous_cols]

\* the token of column col for sample b, read from X[b, column_idx[col]]
Token(e, col, b) ==
    [k \in 1..e.input_dim |->
        [col |-> col, x |-> e.column_idx[col], b |-> b, k |-> k, depth |-> 0]]

\* the composer's forward: (x_cat, x_cont), each None when its columns are absent;
\* X is a batch of N rows
SameSizeCatAndContEmbeddings_forward(e, N) ==
    [x_cat |-> IF e.cat_embed_input.set
               THEN Some([b \in 1..N |-> [i \in 1..Len(e.cat_embed_input.val) |->
                            Token(e, e.cat_embed_input.val[i][1], b)]])
               ELSE None,
     x_cont |-> IF e.continuous_cols.set
                THEN Some([b \in 1..N |-> [i \in 1..Len(e.continuous_cols.val) |->
                             Token(e, e.continuous_cols.val[i], b)]])
                ELSE None]

\* SaintEncoder(input_dim, n_heads, ..., n_feats): the attention weights are
\* attributes of its two attention layers
SaintEncoder(input_dim, n_heads, n_feats, id) ==
    [id |-> id, input_dim |-> input_dim, n_heads |-> n_heads, n_feats |-> n_feats,
     col_attn |-> [attn_weights |-> None], row_attn |-> [attn_weights |-> None]]

\* one SAINT block applied to x in forward pass number pass: the token count and
\* the width are kept, the two weight tensors are replaced
SaintEncoder_forward(blk, x, pass) ==
    LET N == Len(x)
        F == Len(x[1])
    IN  IF F # blk.n_feats \/ Width3(x) # blk.input_dim
        THEN [error |-> "RuntimeError", blk |-> blk, x |-> x]
        ELSE [error |-> "none",
              blk |-> [blk EXCEPT
                        !.col_attn.attn_weights =
                            Some([axis |-> "column", pass |-> pass, owner |-> blk.id,
                                  shape |-> <<N, blk.n_heads, F, F>>]),
                        !.row_attn.attn_weights =
                            Some([axis |-> "row", pass |-> pass, owner |-> blk.id,
                                  shape |-> <<1, blk.n_heads, N, N>>])],
              x |-> [b \in 1..N |-> [i \in 1..F |-> [k \in 1..Width3(x) |->
                        [x[b][i][k] EXCEPT !.depth = @ + 1]]]]]

\* nn.Sequential.add_module: a new name is appended, a known name is replaced
add_module(seq, name, m) ==
    IF \E i \in 1..Len(seq) : seq[i].name = name
    THEN [i \in 1..Len(seq) |-> IF seq[i].name = name THEN [name |-> name, module |-> m]
                                ELSE seq[i]]
    ELSE Append(seq, [name |-> name, module |-> m])

(***************************************************************************)
(* SAINT.__init__                                                          *)
(***************************************************************************)
\* "cls_token" in column_idx
with_cls_token(column_idx) == "cls_token" \in DOMAIN column_idx

\* len(cols) if cols is not None else 0
len_or_zero(cols) == IF cols.set THEN Len(cols.val) ELSE 0

\* the n_blocks-fold loop over add_module
RECURSIVE SaintBlocks(_, _, _)
SaintBlocks(a, n_feats, i) ==
    IF i = 0 THEN <<>>
    ELSE add_module(SaintBlocks(a, n_feats, i - 1), <<"saint_block", i - 1>>,
                    SaintEncoder(a.input_dim, a.n_heads, n_feats, i - 1))

\* the same counting the categorical columns only
AttnOutputDimCatOnly(self) ==
    IF self.with_cls_token THEN self.input_dim ELSE self.n_cat * self.input_dim

\* the width of the vector handed to the head
attn_output_dim(self) ==
    IF self.with_cls_token THEN self.input_dim ELSE self.n_feats * self.input_dim

\* the same testing the argument against None only
SaintMlpDimsIsNone(self, mlp_hidden_dims) ==
    IF ~mlp_hidden_dims.set
    THEN <<attn_output_dim(self), attn_output_dim(self) * 4, attn_output_dim(self) * 2>>
    ELSE <<attn_output_dim(self)>> \o mlp_hidden_dims.val

\* the widths of the head, from the local mlp_hidden_dims
SaintMlpDims(self, mlp_hidden_dims) ==
    IF ~mlp_hidden_dims.set \/ mlp_hidden_dims.val = <<>>
    THEN <<attn_output_dim(self), attn_output_dim(self) * 4, attn_output_dim(self) * 2>>
    ELSE <<attn_output_dim(self)>> \o mlp_hidden_dims.val

\* the whole constructor
SAINT_init(a) ==
    LET s1 == [column_idx |-> a.column_idx, cat_embed_input |-> a.cat_embed_input,
               continuous_cols |-> a.continuous_cols, input_dim |-> a.input_dim,
               n_heads |-> a.n_heads, n_blocks |-> a.n_blocks,
               mlp_hidden_dims |-> a.mlp_hidden_dims,
               with_cls_token |-> with_cls_token(a.column_idx),
               n_cat |-> len_or_zero(a.cat_embed_input),
               n_cont |-> len_or_zero(a.continuous_cols),
               n_feats |-> len_or_zero(a.cat_embed_input) + len_or_zero(a.continuous_cols)]
        dims == SaintMlpDims(s1, a.mlp_hidden_dims)
    IN  [cat_and_cont_embed |-> SameSizeCatAndContEmbeddings(
                                    a.input_dim, a.column_idx, a.cat_embed_input,
                                    a.continuous_cols),
         transformer_blks |-> SaintBlocks(a, s1.n_feats, a.n_blocks),
         transformer_mlp |-> MLP(dims),
         output_dim |-> Last(dims)] @@ s1

(***************************************************************************)
(* SAINT.forward and SAINT.attention_weights                               *)
(***************************************************************************)
\* the same with the continuous tokens put first
SaintTokensContFirst(x_cat, x_cont) ==
    LET x1 == IF x_cat.set THEN x_cat ELSE None
    IN  IF x_cont.set
        THEN IF x_cat.set THEN Some(cat_dim1_3d(x_cont.val, x1.val).val) ELSE x_cont
        ELSE x1

\* the token sequence built from the composer's pair; None when x is never bound
SaintTokens(x_cat, x_cont) ==
    LET x1 == IF x_cat.set THEN x_cat ELSE None
    IN  IF x_cont.set
        THEN IF x_cat.set THEN Some(cat_dim1_3d(x1.val, x_cont.val).val) ELSE x_cont
        ELSE x1

\* self.transformer_blks(x): the blocks in order; [error, blks, x]
RECURSIVE RunBlocks(_, _, _, _)
RunBlocks(blks, x, pass, n) ==
    IF n = 0 THEN [error |-> "none", blks |-> blks, x |-> x]
    ELSE LET before == RunBlocks(blks, x, pass, n - 1)
             r == SaintEncoder_forward(before.blks[n].module, before.x, pass)
         IN  IF before.error # "none" THEN before
             ELSE [error |-> r.error,
                   blks |-> [before.blks EXCEPT ![n].module = r.blk],
                   x |-> r.x]

\* the same taking the last token of the sequence
SaintReduceLastToken(self, x) ==
    IF self.with_cls_token THEN [b \in 1..Len(x) |-> x[b][Len(x[b])]] ELSE flatten1(x)

\* the reduction after the blocks
SaintReduce(self, x) ==
    IF self.with_cls_token THEN [b \in 1..Len(x) |-> x[b][1]] ELSE flatten1(x)

SaintNoForward == [x |-> None, reduced |-> None, out |-> None]

\* the whole forward pass on a batch of N rows: [error, self, fwd]
SAINT_forward(self, N, pass) ==
    LET e == SameSizeCatAndContEmbeddings_forward(self.cat_and_cont_embed, N)
        x == SaintTokens(e.x_cat, e.x_cont)
    IN  IF ~x.set
        THEN [error |-> "UnboundLocalError", self |-> self, fwd |-> SaintNoForward]
        ELSE
        LET r == RunBlocks(self.transformer_blks, x.val, pass, Len(self.transformer_blks))
            s2 == [self EXCEPT !.transformer_blks = r.blks]
        IN  IF r.error # "none"
            THEN [error |-> r.error, self |-> s2, fwd |-> [SaintNoForward EXCEPT !.x = x]]
            ELSE
            LET reduced == SaintReduce(self, r.x)
                out == MLP_forward(self.transformer_mlp, reduced)
            IN  [error |-> out.error, self |-> s2,
                 fwd |-> [x |-> x, reduced |-> Some(reduced),
                          out |-> IF out.error = "none" THEN Some(out.val) ELSE None]]

\* the same with the two weights of a block swapped
AttentionWeightsRowFirst(self) ==
    [i \in 1..Len(self.transformer_blks) |->
        <<self.transformer_blks[i].module.row_attn.attn_weights,
          self.transformer_blks[i].module.col_attn.attn_weights>>]

\* the attention_weights property
attention_weights(self) ==
    [i \in 1..Len(self.transformer_blks) |->
        <<self.transformer_blks[i].module.col_attn.attn_weights,
          self.transformer_blks[i].module.row_attn.attn_weights>>]

(***************************************************************************)
(* Inputs of the SAINT model.                                              *)
(***************************************************************************)
CatNames == {"cls_token", "a", "b"}
ContNames == {"e", "f"}
NUnique == 4
NHeads == {1}
MlpDims == {<<>>, <<3>>}

\* the non-empty lists without repetition of at most n names
Lists(names, n) ==
    UNION {{s \in [1..m -> names] : \A i, j \in 1..m : i # j => s[i] # s[j]} : m \in 1..n}

\* the columns a schema uses: the categorical ones, then the continuous ones
ColumnsOf(cat, cont) ==
    (IF cat.set THEN [i \in 1..Len(cat.val) |-> cat.val[i][1]] ELSE <<>>)
        \o (IF cont.set THEN cont.val ELSE <<>>)

\* placements of the used columns in the input block: in schema order, and
\* rotated by one
ColumnIdxs(cols) ==
    {[c \in {cols[i] : i \in 1..Len(cols)} |->
        ((CHOOSE i \in 1..Len(cols) : cols[i] = c) - 1 + r) % Len(cols)] : r \in {0, 1}}

SaintSchemas ==
    UNION {{[column_idx |-> f, cat_embed_input |-> cat, continuous_cols |-> cont] :
                f \in ColumnIdxs(ColumnsOf(cat, cont))} :
           cat \in Optional({[i \in 1..Len(l) |-> <<l[i], NUnique>>] : l \in Lists(CatNames, MaxCat)}),
           cont \in Optional(Lists(ContNames, MaxCont))}

SaintArgs ==
    {[column_idx |-> sch.column_idx, cat_embed_input |-> sch.cat_embed_input,
      continuous_cols |-> sch.continuous_cols, input_dim |-> d, n_heads |-> nh,
      n_blocks |-> nb, mlp_hidden_dims |-> m] :
        sch \in SaintSchemas, d \in 1..MaxInputDim, nh \in NHeads, nb \in 0..MaxBlocks,
        m \in Optional(MlpDims)}

(***************************************************************************)
(* The AttentiveRNN state machine.                                         *)
(***************************************************************************)
RnnInit ==
    /\ rnn_pc = "new"
    /\ rnn_args = None
    /\ rnn_self = RnnSelfNew
    /\ rnn_warnings = <<>>
    /\ rnn_error = "none"
    /\ rnn_X = None
    /\ rnn_fwd = NoForward

\* model = AttentiveRNN(**a), the arguments drawn from a set
RnnConstructFrom(args) ==
    /\ rnn_pc = "new"
    /\ \E a \in args :
         LET r == AttentiveRNN_init(a)
         IN  /\ rnn_self' = r.self
             /\ rnn_warnings' = r.warnings
             /\ rnn_error' = r.error
             /\ rnn_pc' = IF r.error = "none" THEN "constructed" ELSE "raised"
             /\ rnn_args' = Some(a)
    /\ UNCHANGED <<rnn_X, rnn_fwd, saint_vars>>

RnnConstruct == RnnConstructFrom(RnnArgs(RnnTypes))

\* out = model(X)
RnnForward ==
    /\ rnn_pc = "constructed"
    /\ \E X \in Batches(rnn_self.vocab_size) :
         LET f == AttentiveRNN_forward(rnn_self, X)
         IN  /\ rnn_fwd' = f
             /\ rnn_error' = f.error
             /\ rnn_pc' = IF f.error = "none" THEN "forwarded" ELSE "forward_raised"
             /\ rnn_X' = Some(X)
    /\ UNCHANGED <<rnn_args, rnn_self, rnn_warnings, saint_vars>>

RnnConstructAnyType == RnnConstructFrom(RnnTypeArgs)

Next ==
    \/ RnnConstruct
    \/ RnnForward

NextRnnType ==
    \/ RnnConstructAnyType
    \/ RnnForward

(***************************************************************************)
(* The SAINT state machine.                                                *)
(***************************************************************************)
SaintInit ==
    /\ saint_pc = "new"
    /\ saint_args = None
    /\ saint_self = None
    /\ saint_error = "none"
    /\ saint_fwd = SaintNoForward
    /\ saint_passes = 0
    /\ saint_read = None

\* model = SAINT(**a)
SaintConstruct ==
    /\ saint_pc = "new"
    /\ \E a \in SaintArgs :
         /\ saint_self' = Some(SAINT_init(a))
         /\ saint_args' = Some(a)
    /\ saint_pc' = "constructed"
    /\ UNCHANGED <<saint_error, saint_fwd, saint_passes, saint_read, rnn_vars>>

\* out = model(X)
SaintForward ==
    /\ saint_pc \in {"constructed", "forwarded", "forward_raised"}
    /\ saint_passes < MaxPasses
    /\ \E N \in 1..MaxBatch :
         LET r == SAINT_forward(saint_self.val, N, saint_passes + 1)
         IN  /\ saint_self' = Some(r.self)
             /\ saint_fwd' = r.fwd
             /\ saint_error' = r.error
             /\ saint_pc' = IF r.error = "none" THEN "forwarded" ELSE "forward_raised"
    /\ saint_passes' = saint_passes + 1
    /\ UNCHANGED <<saint_args, saint_read, rnn_vars>>

\* w = model.attention_weights, after a forward pass has set the weights
SaintReadAttention ==
    /\ saint_pc = "forwarded"
    /\ saint_read' = Some(attention_weights(saint_self.val))
    /\ UNCHANGED <<saint_pc, saint_args, saint_self, saint_error, saint_fwd, saint_passes,
                   rnn_vars>>

NextSaint ==
    \/ SaintConstruct
    \/ SaintForward
    \/ SaintReadAttention

\* the two components are independent: each specification runs one of them
Init == RnnInit /\ SaintInit

Spec == Init /\ [][Next]_vars

SpecRnnType == Init /\ [][NextRnnType]_vars

SpecSaint == Init /\ [][NextSaint]_vars

(***************************************************************************)
(* Vocabulary of the properties.                                           *)
(***************************************************************************)
RnnA == rnn_args.val
RnnRan == rnn_pc \in {"forwarded", "forward_raised"}

\* the type strings that spell "lstm" or "gru" in some letter case
SupportedSpelling(t) == t \in Spellings(lstm) \cup Spellings(gru)

\* shape of the batch handed to forward
RnnB == Len(rnn_X.val)
RnnT == Len(rnn_X.val[1])

\* the final hidden state of the last layer for sample b: the forward direction
\* ends at the last step, the backward direction at the first
FinalHidden(b) ==
    IF RnnA.bidirectional
    THEN Cell(RnnA.hidden_dim, RnnA.n_layers, 1, b, RnnT)
            \o Cell(RnnA.hidden_dim, RnnA.n_layers, 2, b, 1)
    ELSE Cell(RnnA.hidden_dim, RnnA.n_layers, 1, b, RnnT)

\* the recurrent output sequence with the final hidden state appended at every step
OutputWithHidden ==
    [b \in 1..RnnB |-> [t \in 1..RnnT |-> rnn_fwd.o.val[b][t] \o FinalHidden(b)]]

\* the pretrained matrix covers the vocabulary exactly
MatrixFitsVocab ==
    RnnA.embed_matrix.set /\ RnnA.embed_matrix.val.shape[1] = RnnA.vocab_size

(***************************************************************************)
(* C1.  For every configuration construction accepts, forward returns      *)
(* without raising a tensor whose last-axis width is the declared          *)
(* output_dim.  Stated here for batches whose tokens the embedding table   *)
(* covers.  The code breaks it: with attention the pooling input is        *)
(* unbound or of the wrong width on three of the four flag combinations.   *)
(***************************************************************************)
C1_ForwardWidthIsOutputDim ==
    (RnnRan /\ MatrixFitsVocab) =>
        /\ rnn_pc = "forwarded"
        /\ Width2(rnn_fwd.out.val) = rnn_self.output_dim.val

(***************************************************************************)
(* C2.  With attention, the pooling input is the output sequence joined    *)
(* with a broadcast copy of the final hidden state when attn_concatenate   *)
(* is set, and the output sequence alone when it is not.  The code breaks  *)
(* it: it joins the hidden state when the flag is NOT set, and binds       *)
(* nothing when the flag is set and the stack is unidirectional.           *)
(***************************************************************************)
C2_AttentionInput ==
    (RnnRan /\ RnnA.with_attention /\ rnn_fwd.o.set) =>
        /\ rnn_fwd.attn_inp.set
        /\ rnn_fwd.attn_inp.val =
              IF RnnA.attn_concatenate THEN OutputWithHidden ELSE rnn_fwd.o.val

(***************************************************************************)
(* C3.  A type string that is no letter-case spelling of "lstm" or "gru"   *)
(* makes construction raise ValueError with no embedding, recurrent or     *)
(* attention module built, so forward never runs on it; every letter-case  *)
(* spelling of the two names passes the validation.                        *)
(***************************************************************************)
C3_UnsupportedTypeRejected ==
    rnn_args.set =>
        /\ ~SupportedSpelling(RnnA.rnn_type) =>
              /\ rnn_pc = "raised"
              /\ rnn_error = "ValueError"
              /\ rnn_self.word_embed = None
              /\ rnn_self.rnn = None
              /\ rnn_self.attn = None
        /\ SupportedSpelling(RnnA.rnn_type) =>
              ~(rnn_pc = "raised" /\ rnn_error = "ValueError")
        /\ RnnRan => SupportedSpelling(RnnA.rnn_type)

C3_Witness ==
    /\ rnn_pc = "raised"
    /\ rnn_error = "ValueError"
    /\ rnn_args.set
    /\ RnnA.rnn_type = <<"R", "n", "N">>

(***************************************************************************)
(* C4.  Without attention the encoder representation is the last layer's   *)
(* final hidden state (both directions joined if bidirectional) when       *)
(* use_hidden_state is set, and the last step of the output sequence when  *)
(* it is not; attn_concatenate plays no part.                              *)
(***************************************************************************)
C4_OutputSelection ==
    (rnn_pc = "forwarded" /\ ~RnnA.with_attention) =>
        rnn_fwd.processed.val =
            IF RnnA.use_hidden_state
            THEN [b \in 1..RnnB |-> FinalHidden(b)]
            ELSE [b \in 1..RnnB |-> rnn_fwd.o.val[b][RnnT]]

C4_Witness ==
    /\ rnn_pc = "forwarded"
    /\ ~RnnA.with_attention
    /\ RnnA.bidirectional
    /\ ~RnnA.use_hidden_state
    /\ RnnA.n_layers = 2
    /\ RnnB = 2
    /\ RnnT = 1
    /\ rnn_fwd.processed.val = [b \in 1..2 |-> rnn_fwd.o.val[b][1]]

(***************************************************************************)
(* C7.  As claimed: with a supported type, a pretrained matrix whose dtype *)
(* is not float32 or whose row count differs from vocab_size makes         *)
(* construction raise.                                                     *)
(***************************************************************************)
C7_EveryMismatchRejected ==
    (rnn_args.set /\ SupportedSpelling(RnnA.rnn_type) /\ RnnA.embed_matrix.set) =>
        ((\/ RnnA.embed_matrix.val.dtype # "float32"
          \/ RnnA.embed_matrix.val.shape[1] # RnnA.vocab_size)
            => rnn_pc = "raised")

(***************************************************************************)
(* C7, amended.  With a supported type, a pretrained matrix whose dtype is *)
(* not float32 makes construction raise AssertionError before the          *)
(* embedding is built and before any forward pass; a float32 matrix is     *)
(* accepted whatever its row count, and the embedding weight takes the     *)
(* matrix's shape.                                                         *)
(***************************************************************************)
C7_DtypeRejectedShapeAccepted ==
    (rnn_args.set /\ SupportedSpelling(RnnA.rnn_type) /\ RnnA.embed_matrix.set) =>
        /\ RnnA.embed_matrix.val.dtype # "float32" =>
              /\ rnn_pc = "raised"
              /\ rnn_error = "AssertionError"
              /\ rnn_self.word_embed = None
              /\ rnn_fwd = NoForward
        /\ RnnA.embed_matrix.val.dtype = "float32" =>
              /\ rnn_pc # "raised"
              /\ rnn_self.word_embed.val.weight = RnnA.embed_matrix.val.shape

C7_Witness ==
    /\ rnn_pc = "raised"
    /\ rnn_error = "AssertionError"
    /\ RnnA.embed_matrix.val.dtype = "float64"
    /\ RnnA.embed_matrix.val.shape[1] = RnnA.vocab_size

(***************************************************************************)
(* C8.  With no pretrained matrix, a supported type and an integer         *)
(* embed_dim, construction succeeds and the embedding table and the input  *)
(* of the recurrent stack have width embed_dim.  The code breaks it:       *)
(* _set_embeddings reads its local embed_dim before binding it.            *)
(***************************************************************************)
C8_EmbedDimWithoutMatrix ==
    (/\ rnn_args.set
     /\ SupportedSpelling(RnnA.rnn_type)
     /\ ~RnnA.embed_matrix.set
     /\ RnnA.embed_dim.set) =>
        /\ rnn_pc # "raised"
        /\ rnn_self.word_embed.val.embedding_dim = RnnA.embed_dim.val
        /\ rnn_self.rnn.val.input_size = RnnA.embed_dim.val

(***************************************************************************)
(* C9.  The mismatch UserWarning is emitted exactly when embed_dim and a   *)
(* pretrained matrix are both given and embed_dim differs from the         *)
(* matrix's column count; the mismatch alone does not make construction    *)
(* fail, and the embedding width and the recurrent input size are the      *)
(* matrix's column count.                                                  *)
(***************************************************************************)
C9_MismatchWarnsPretrainedWins ==
    rnn_args.set =>
        LET both == RnnA.embed_dim.set /\ RnnA.embed_matrix.set
            differ == both /\ RnnA.embed_dim.val # RnnA.embed_matrix.val.shape[2]
        IN  /\ rnn_warnings = IF differ THEN <<"UserWarning">> ELSE <<>>
            /\ (/\ differ
                /\ SupportedSpelling(RnnA.rnn_type)
                /\ RnnA.embed_matrix.val.dtype = "float32") =>
                  /\ rnn_pc # "raised"
                  /\ rnn_self.word_embed.val.embedding_dim = RnnA.embed_matrix.val.shape[2]
                  /\ rnn_self.rnn.val.input_size = RnnA.embed_matrix.val.shape[2]

C9_Witness ==
    /\ rnn_pc = "constructed"
    /\ rnn_warnings = <<"UserWarning">>
    /\ RnnA.embed_dim = Some(1)
    /\ RnnA.embed_matrix.val.shape = <<2, 2>>
    /\ rnn_self.rnn.val.input_size = 2

SaintA == saint_args.val
SaintS == saint_self.val
SaintRan == saint_pc \in {"forwarded", "forward_raised"}

\* the schema's columns in the order the composer emits their tokens
SaintColumns == ColumnsOf(SaintA.cat_embed_input, SaintA.continuous_cols)

\* batch size of the last forward pass
SaintN == Len(saint_fwd.x.val)

\* the representation of column col for sample b after every block
FinalToken(col, b) ==
    [k \in 1..SaintA.input_dim |->
        [col |-> col, x |-> SaintA.column_idx[col], b |-> b, k |-> k,
         depth |-> SaintA.n_blocks]]

\* every column's final representation, one after the other
AllFinalTokens(b) == Concat([i \in 1..Len(SaintColumns) |-> FinalToken(SaintColumns[i], b)])

SaintHasCls == "cls_token" \in DOMAIN SaintA.column_idx

(***************************************************************************)
(* C5.  For every configuration with at least one column, the reduced      *)
(* vector handed to the head has the head's first width, and forward       *)
(* returns a (batch, output_dim) tensor.                                   *)
(***************************************************************************)
C5_SaintOutputShape ==
    (SaintRan /\ Len(SaintColumns) >= 1) =>
        /\ saint_pc = "forwarded"
        /\ Width2(saint_fwd.reduced.val) = SaintS.transformer_mlp.d_hidden[1]
        /\ Len(saint_fwd.out.val) = SaintN
        /\ Width2(saint_fwd.out.val) = SaintS.output_dim

C5_Witness ==
    /\ saint_pc = "forwarded"
    /\ ~SaintHasCls
    /\ SaintA.cat_embed_input.set
    /\ SaintA.continuous_cols.set
    /\ Len(SaintColumns) = 3
    /\ SaintA.input_dim = 2
    /\ SaintA.mlp_hidden_dims = Some(<<3>>)
    /\ Width2(saint_fwd.reduced.val) = 6
    /\ Width2(saint_fwd.out.val) = 3

(***************************************************************************)
(* C6.  As claimed: with a cls_token column, wherever it sits, the reduced *)
(* vector is the final representation of that column's token; without      *)
(* one, it is the whole token sequence flattened.                          *)
(***************************************************************************)
C6_ClsTokenAnywhere ==
    saint_pc = "forwarded" =>
        \A b \in 1..SaintN :
            saint_fwd.reduced.val[b] =
                IF SaintHasCls THEN FinalToken("cls_token", b) ELSE AllFinalTokens(b)

(***************************************************************************)
(* C6, amended.  With a cls_token column in column_idx, the reduced vector *)
(* is the final representation of the token at the first position of the   *)
(* sequence (width input_dim), which is the cls_token's token when         *)
(* cls_token is the first column of cat_embed_input; without a cls_token   *)
(* column, it is the whole token sequence flattened (width n_feats *       *)
(* input_dim).                                                             *)
(***************************************************************************)
C6_FirstTokenOrFlatten ==
    saint_pc = "forwarded" =>
        \A b \in 1..SaintN :
            /\ SaintHasCls =>
                  /\ saint_fwd.reduced.val[b] = FinalToken(SaintColumns[1], b)
                  /\ Len(saint_fwd.reduced.val[b]) = SaintA.input_dim
                  /\ (SaintA.cat_embed_input.set
                        /\ SaintA.cat_embed_input.val[1][1] = "cls_token") =>
                        saint_fwd.reduced.val[b] = FinalToken("cls_token", b)
            /\ ~SaintHasCls =>
                  /\ saint_fwd.reduced.val[b] = AllFinalTokens(b)
                  /\ Len(saint_fwd.reduced.val[b]) = Len(SaintColumns) * SaintA.input_dim

C6_Witness ==
    /\ saint_pc = "forwarded"
    /\ SaintHasCls
    /\ SaintColumns = <<"cls_token", "a", "e">>
    /\ SaintA.n_blocks = 2
    /\ SaintN = 2
    /\ saint_fwd.reduced.val[2] = FinalToken("cls_token", 2)

(***************************************************************************)
(* C10.  Reading attention_weights yields one entry per block, entry i     *)
(* holding the column weights and then the row weights of the i-th block   *)
(* built, and leaves every attribute of the model as it was.               *)
(***************************************************************************)
C10_AttentionWeightsRead ==
    [][saint_read' # saint_read =>
          /\ saint_self' = saint_self
          /\ saint_fwd' = saint_fwd
          /\ Len(saint_read'.val) = SaintA.n_blocks
          /\ \A i \in 1..SaintA.n_blocks :
                /\ SaintS.transformer_blks[i].name = <<"saint_block", i - 1>>
                /\ saint_read'.val[i][1] =
                      SaintS.transformer_blks[i].module.col_attn.attn_weights
                /\ saint_read'.val[i][1].val.axis = "column"
                /\ saint_read'.val[i][1].val.owner = i - 1
                /\ saint_read'.val[i][2].val.axis = "row"
                /\ saint_read'.val[i][2].val.owner = i - 1
                /\ saint_read'.val[i][1].val.pass = saint_passes
                /\ saint_read'.val[i][2].val.pass = saint_passes]_vars

C10_Witness ==
    /\ saint_read.set
    /\ SaintA.n_blocks = 2
    /\ Len(saint_read.val) = 2
    /\ saint_passes = 2
    /\ saint_read.val[2][2].val.pass = 2

\* the head's input dimension l
HeadInputDim ==
    IF SaintHasCls THEN SaintA.input_dim ELSE Len(SaintColumns) * SaintA.input_dim

(***************************************************************************)
(* C11.  As claimed: without mlp_hidden_dims the head's widths are         *)
(* [l, 4*l, 2*l] and output_dim is 2*l; with any list given they are l     *)
(* followed by that list and output_dim is the list's last width.          *)
(***************************************************************************)
C11_HeadWidthsAnyList ==
    saint_args.set =>
        IF ~SaintA.mlp_hidden_dims.set
        THEN /\ SaintS.transformer_mlp.d_hidden =
                    <<HeadInputDim, 4 * HeadInputDim, 2 * HeadInputDim>>
             /\ SaintS.output_dim = 2 * HeadInputDim
        ELSE /\ SaintS.transformer_mlp.d_hidden =
                    <<HeadInputDim>> \o SaintA.mlp_hidden_dims.val
             /\ SaintA.mlp_hidden_dims.val # <<>>
             /\ SaintS.output_dim = Last(SaintA.mlp_hidden_dims.val)

(***************************************************************************)
(* C11, amended.  When mlp_hidden_dims is None or an empty list the head's *)
(* widths are [l, 4*l, 2*l] and output_dim is 2*l, l being input_dim with  *)
(* a cls_token column and n_feats * input_dim otherwise; when it is a      *)
(* non-empty list the widths are l followed by the list and output_dim is  *)
(* the list's last width.  The list the caller passed, which the object    *)
(* keeps as its mlp_hidden_dims attribute, stays as passed, also after     *)
(* forward passes.                                                         *)
(***************************************************************************)
C11_HeadWidths ==
    saint_args.set =>
        /\ IF ~SaintA.mlp_hidden_dims.set \/ SaintA.mlp_hidden_dims = Some(<<>>)
           THEN /\ SaintS.transformer_mlp.d_hidden =
                       <<HeadInputDim, 4 * HeadInputDim, 2 * HeadInputDim>>
                /\ SaintS.output_dim = 2 * HeadInputDim
           ELSE /\ SaintS.transformer_mlp.d_hidden =
                       <<HeadInputDim>> \o SaintA.mlp_hidden_dims.val
                /\ SaintS.output_dim = Last(SaintA.mlp_hidden_dims.val)
        /\ SaintS.mlp_hidden_dims = SaintA.mlp_hidden_dims

C11_Witness ==
    /\ saint_pc = "constructed"
    /\ SaintA.mlp_hidden_dims = Some(<<>>)
    /\ ~SaintHasCls
    /\ Len(SaintColumns) = 3
    /\ SaintA.input_dim = 2
    /\ SaintS.transformer_mlp.d_hidden = <<6, 24, 12>>
    /\ SaintS.output_dim = 12

\* the token the composer emits for column col of sample b
InputToken(col, b) ==
    [k \in 1..SaintA.input_dim |->
        [col |-> col, x |-> SaintA.column_idx[col], b |-> b, k |-> k, depth |-> 0]]

\* the names of the categorical and of the continuous columns, in list order
CatColumnNames ==
    IF SaintA.cat_embed_input.set
    THEN [i \in 1..Len(SaintA.cat_embed_input.val) |-> SaintA.cat_embed_input.val[i][1]]
    ELSE <<>>

ContColumnNames ==
    IF SaintA.continuous_cols.set THEN SaintA.continuous_cols.val ELSE <<>>

(***************************************************************************)
(* C12.  The token sequence handed to the attention blocks is the          *)
(* categorical tokens followed by the continuous tokens (either alone when *)
(* the other is absent), so its length is the number of categorical plus   *)
(* the number of continuous columns; when the composer returns neither,    *)
(* forward raises and yields no output.                                    *)
(***************************************************************************)
C12_TokenSequence ==
    SaintRan =>
        IF ~SaintA.cat_embed_input.set /\ ~SaintA.continuous_cols.set
        THEN /\ saint_pc = "forward_raised"
             /\ saint_error # "none"
             /\ saint_fwd.x = None
             /\ saint_fwd.out = None
        ELSE /\ saint_fwd.x.set
             /\ \A b \in 1..SaintN :
                   /\ Len(saint_fwd.x.val[b]) = Len(CatColumnNames) + Len(ContColumnNames)
                   /\ \A i \in 1..Len(CatColumnNames) :
                         saint_fwd.x.val[b][i] = InputToken(CatColumnNames[i], b)
                   /\ \A j \in 1..Len(ContColumnNames) :
                         saint_fwd.x.val[b][Len(CatColumnNames) + j] =
                             InputToken(ContColumnNames[j], b)

C12_Witness ==
    /\ saint_pc = "forwarded"
    /\ CatColumnNames = <<"b", "a">>
    /\ ContColumnNames = <<"e">>
    /\ SaintN = 2
    /\ Len(saint_fwd.x.val[2]) = 3
    /\ saint_fwd.x.val[2][3] = InputToken("e", 2)

\* the other case of C12: neither kind of column, and forward has raised
C12_NeitherRaises ==
    /\ saint_pc = "forward_raised"
    /\ saint_error = "UnboundLocalError"
    /\ ~SaintA.cat_embed_input.set
    /\ ~SaintA.continuous_cols.set

====
